---------------------------- MODULE Spec2Model ----------------------------
(***************************************************************************)
(* Model of the scheduled feed notifier of src/src/index.ts.  The file      *)
(* holds two variants of the Lambda handler:                                *)
(*   variant "A" (lines 1-146):   gate on the latest item, notify about the *)
(*                                second latest item;                       *)
(*   variant "B" (lines 149-257): scan every item, notify each fresh one.   *)
(*                                                                          *)
(* Representation of values                                                 *)
(*   Date    [valid, day, ms]: a JavaScript Date.  day is the number of     *)
(*           whole days since 1970-01-01T00:00Z and ms the milliseconds     *)
(*           into that day, so that getTime() = day * 86400000 + ms is kept *)
(*           exactly without leaving the range of the integers of the       *)
(*           model checker.  valid = FALSE is the Invalid Date (NaN).       *)
(*   Text    a sequence of characters (one-character strings).  A fixed     *)
(*           Japanese literal of the source is one element named by its     *)
(*           code points, e.g. "<U+5E74>".                                  *)
(*   Opt     [has, v]: a value that may be undefined (has = FALSE).         *)
(***************************************************************************)
EXTENDS Integers, Sequences, FiniteSets, TLC

VARIABLES
    variant,      \* "A" or "B": which handler is deployed
    remote,       \* the items the remote feed serves
    clock,        \* the wall clock (a valid Date)
    pc,           \* position of the running invocation
    items,        \* the handler's local: the fetched items
    cutoff,       \* the handler's local: cutoff (A) / yesterday (B)
    idx,          \* B: index of the item the for-loop is at
    pending,      \* the publish call awaiting its response, if any
    calls,        \* publish calls issued by this invocation, in order
    acked,        \* number of publish calls that succeeded in this invocation
    err,          \* the error this invocation ended with ("none" if none)
    logs,         \* tags of what this invocation wrote to the console
    notifiedBefore, \* history: items published by earlier invocations
    agedBefore,   \* history: items an earlier invocation found aged out
    fmtIn,        \* formatting: the Date handed to formatJstDateTime
    fmtOutA,      \* formatting: result of variant A's formatJstDateTime
    fmtOutB       \* formatting: result of variant B's formatJstDateTime

vars == <<variant, remote, clock, pc, items, cutoff, idx, pending, calls, acked,
          err, logs, notifiedBefore, agedBefore, fmtIn, fmtOutA, fmtOutB>>

handlerVars == <<variant, remote, clock, pc, items, cutoff, idx, pending, calls,
                 acked, err, logs, notifiedBefore, agedBefore>>

fmtVars == <<fmtIn, fmtOutA, fmtOutB>>

-----------------------------------------------------------------------------
(* Dates *)

MsPerDay == 24 * 60 * 60 * 1000

MkDate(day, ms) == [valid |-> TRUE, day |-> day, ms |-> ms]

\* new Date(<unparseable>): getTime() is NaN
InvalidDate == [valid |-> FALSE, day |-> 0, ms |-> 0]

\* Number.isNaN(d.getTime())
IsNaN(d) == ~d.valid

\* new Date(d.getTime() + delta), delta in milliseconds (may be negative)
AddMs(d, delta) ==
    LET total == d.ms + delta
    IN  MkDate(d.day + (total \div MsPerDay), total % MsPerDay)

\* a > b on two valid Dates (compared by getTime())
DateGt(a, b) == a.day > b.day \/ (a.day = b.day /\ a.ms > b.ms)

\* a <= b on two valid Dates
DateLe(a, b) == ~DateGt(a, b)

-----------------------------------------------------------------------------
(* Text *)

DigitChars == <<"0", "1", "2", "3", "4", "5", "6", "7", "8", "9">>

RECURSIVE NumStr(_)
\* String(n) for a natural number n: its decimal digits
NumStr(n) ==
    IF n < 10 THEN <<DigitChars[n + 1]>>
    ELSE NumStr(n \div 10) \o <<DigitChars[(n % 10) + 1]>>

RECURSIVE padStart(_, _, _)
\* String.prototype.padStart(len, ch)
padStart(s, len, ch) == IF Len(s) >= len THEN s ELSE padStart(<<ch>> \o s, len, ch)

\* the "2-digit" rendering of a date field by Intl.DateTimeFormat
TwoDigit(n) == padStart(NumStr(n % 100), 2, "0")

Some(v) == [has |-> TRUE, v |-> v]

Undefined == [has |-> FALSE, v |-> <<>>]

\* JavaScript truthiness of an optional string: undefined and "" are falsy
Truthy(o) == o.has /\ o.v # <<>>

\* mutant of OrElse: ?? in place of ||, so that "" is kept
OrElse_Nullish(o, dflt) == IF o.has THEN o.v ELSE dflt

\* o || dflt
OrElse(o, dflt) == IF Truthy(o) THEN o.v ELSE dflt

\* o ?? ""
OrElseEmpty(o) == IF o.has THEN o.v ELSE <<>>

-----------------------------------------------------------------------------
(* Intl.DateTimeFormat("ja-JP", {timeZone: "Asia/Tokyo", ...})              *)
(* The formatter is the runtime's, not this repository's; it is modelled by *)
(* what it returns for the options the source passes: the civil fields of   *)
(* the instant at UTC+9 (Asia/Tokyo has had no other offset since 1951),    *)
(* numbered in the Gregorian calendar, laid out by the ja-JP patterns.      *)

\* timeZone: "Asia/Tokyo"
TokyoOffsetMs == 9 * 60 * 60 * 1000

\* Gregorian year, month, day of a day number (days since 1970-01-01)
CivilFromDays(z0) ==
    LET z   == z0 + 719468
        era == z \div 146097
        doe == z - era * 146097
        yoe == (doe - doe \div 1460 + doe \div 36524 - doe \div 146096) \div 365
        doy == doe - (365 * yoe + yoe \div 4 - yoe \div 100)
        mp  == (5 * doy + 2) \div 153
        d   == doy - (153 * mp + 2) \div 5 + 1
        m   == IF mp < 10 THEN mp + 3 ELSE mp - 9
        y   == yoe + era * 400 + (IF m <= 2 THEN 1 ELSE 0)
    IN  [year |-> y, month |-> m, day |-> d]

\* the civil fields of a valid Date in Asia/Tokyo; the hour is on the h23 cycle
\* (0-23), which is what hour12: false selects for ja-JP
TokyoFields(date) ==
    LET local == AddMs(date, TokyoOffsetMs)
        ymd   == CivilFromDays(local.day)
        mins  == local.ms \div (60 * 1000)
    IN  [year |-> ymd.year, month |-> ymd.month, day |-> ymd.day,
         hour |-> mins \div 60, minute |-> mins % 60]

Part(type, value) == [type |-> type, value |-> value]

\* dtf.formatToParts(date) for {year: "numeric", month: "2-digit", day: "2-digit",
\* hour: "2-digit", minute: "2-digit", hour12: false} in ja-JP: y/MM/dd HH:mm
formatToParts(date) ==
    LET f == TokyoFields(date)
    IN  << Part("year", NumStr(f.year)), Part("literal", <<"/">>),
           Part("month", TwoDigit(f.month)), Part("literal", <<"/">>),
           Part("day", TwoDigit(f.day)), Part("literal", <<" ">>),
           Part("hour", TwoDigit(f.hour)), Part("literal", <<":">>),
           Part("minute", TwoDigit(f.minute)) >>

\* the reduce of lines 55-58: the value of the last part of the given type,
\* undefined when the parts hold none
PartValue(parts, type) ==
    LET at == {i \in 1..Len(parts) : parts[i].type = type}
    IN  IF at = {} THEN Undefined
        ELSE Some(parts[CHOOSE i \in at : \A j \in at : j <= i].value)

\* new Intl.DateTimeFormat("ja-JP", {timeZone: "Asia/Tokyo", <one field>}).format(date):
\* the whole formatted string of a single-field pattern.  ja-JP writes a lone
\* year, month, day or hour with its counter word (y<U+5E74>, MM<U+6708>,
\* dd<U+65E5>, HH<U+6642>); a lone minute is written bare and unpadded.
formatField(date, field) ==
    LET f == TokyoFields(date)
    IN  CASE field = "year"   -> NumStr(f.year) \o <<"<U+5E74>">>
          [] field = "month"  -> TwoDigit(f.month) \o <<"<U+6708>">>
          [] field = "day"    -> TwoDigit(f.day) \o <<"<U+65E5>">>
          [] field = "hour"   -> TwoDigit(f.hour) \o <<"<U+6642>">>
          [] field = "minute" -> NumStr(f.minute)

JstSuffix == <<" ", "(", "J", "S", "T", ")">>

\* variant A, lines 44-67
formatJstDateTimeA(date) ==
    LET parts == formatToParts(date)
        yyyy  == PartValue(parts, "year").v
        mm    == PartValue(parts, "month").v
        dd    == PartValue(parts, "day").v
        hh    == padStart(OrElseEmpty(PartValue(parts, "hour")), 2, "0")
        min   == padStart(OrElseEmpty(PartValue(parts, "minute")), 2, "0")
    IN  yyyy \o <<"/">> \o mm \o <<"/">> \o dd \o <<" ">> \o hh \o <<":">> \o min
        \o JstSuffix

\* variant B, lines 194-218
formatJstDateTimeB(date) ==
    LET yyyy == formatField(date, "year")
        mm   == formatField(date, "month")
        dd   == formatField(date, "day")
        hh   == formatField(date, "hour")
        min  == formatField(date, "minute")
    IN  yyyy \o <<"/">> \o mm \o <<"/">> \o dd \o <<" ">> \o hh \o <<":">> \o min
        \o JstSuffix

-----------------------------------------------------------------------------
(* Message composition.  A message is the sequence of its lines (the array  *)
(* that join("\n") glues); no line of the model holds a line break.         *)

\* line 71 / 222: the announcement line
Announcement == <<"<U+300E>", "<miichan to yamada-san>", "<U+300F>", "<ga koukai saremashita!>">>

\* line 73 / 224: the details header
DetailsHeader == <<"<shousai jouhou>">>

\* "- <taitoru>: "
TitleLabel == <<"-", " ", "<taitoru>", ":", " ">>

\* "- <haishinbi>: "
DateLabel == <<"-", " ", "<haishinbi>", ":", " ">>

UrlLabel == <<"-", " ", "U", "R", "L", ":", " ">>

\* the placeholder of lines 98 and 253 (title absent)
NoTitle == <<"<taitoru nashi>">>

\* the placeholder of line 99 (URL absent)
NoUrl == <<"U", "R", "L", "<nashi>">>

\* variant A, lines 69-78
buildMessageA(title, pubDate, url) ==
    << Announcement,
       <<>>,
       DetailsHeader,
       TitleLabel \o title,
       DateLabel \o formatJstDateTimeA(pubDate),
       UrlLabel \o url >>

\* variant B, lines 220-228
buildMessageB(title, pubDate) ==
    << Announcement,
       <<>>,
       DetailsHeader,
       TitleLabel \o title,
       DateLabel \o formatJstDateTimeB(pubDate) >>

\* variant A, lines 97-100
getItemDisplay(item) ==
    [title |-> OrElse(item.title, NoTitle), url |-> OrElse(item.link, NoUrl)]

\* variant B, line 253: item.title || <placeholder>
titleOrPlaceholderB(item) == OrElse(item.title, NoTitle)

-----------------------------------------------------------------------------
(* Feed items (Parser.Item): title and link are optional strings; pubDate   *)
(* is the raw text of the feed, absent, empty, unparseable, or an RFC 822   *)
(* date, which has a resolution of one second.                              *)

RawUndefined == [kind |-> "undefined", day |-> 0, sec |-> 0]

RawEmpty == [kind |-> "empty", day |-> 0, sec |-> 0]

RawGarbage == [kind |-> "garbage", day |-> 0, sec |-> 0]

Rfc822(day, sec) == [kind |-> "rfc822", day |-> day, sec |-> sec]

\* !item.pubDate: undefined and "" are falsy
PubDateMissing(item) == item.pubDate.kind \in {"undefined", "empty"}

\* new Date(item.pubDate) for a non-empty text
DateParse(raw) ==
    IF raw.kind = "rfc822" THEN MkDate(raw.day, raw.sec * 1000) ELSE InvalidDate

\* the value of items[i - 1] for an index past the end
NoSuchItem == [title |-> Undefined, link |-> Undefined, pubDate |-> RawUndefined,
               missing |-> TRUE]

Item(title, link, pubDate) ==
    [title |-> title, link |-> link, pubDate |-> pubDate, missing |-> FALSE]

\* 2024-03-16T05:30:00Z, empty title
ItemNew == Item(Some(<<>>), Some(<<"u", "2">>), Rfc822(19798, 19800))

\* 2024-03-15T05:30:00Z, no link
ItemOld == Item(Some(<<"E", "p", "1">>), Undefined, Rfc822(19797, 19800))

\* 2024-03-16T15:00:00Z, no title, empty link
ItemLate == Item(Undefined, Some(<<>>), Rfc822(19798, 54000))

ItemNoDate == Item(Some(<<"E", "p", "3">>), Some(<<"u", "3">>), RawUndefined)

ItemEmptyDate == Item(Some(<<"E", "p", "4">>), Some(<<"u", "4">>), RawEmpty)

ItemBadDate == Item(Some(<<"E", "p", "5">>), Some(<<"u", "5">>), RawGarbage)

Catalogue == {ItemNew, ItemOld, ItemLate, ItemNoDate, ItemEmptyDate, ItemBadDate}

\* longest feed served
MaxItems == 3

RECURSIVE SeqsUpTo(_, _)
SeqsUpTo(S, n) ==
    IF n = 0 THEN {<<>>}
    ELSE LET shorter == SeqsUpTo(S, n - 1)
         IN  shorter \cup {Append(f, x) : f \in {g \in shorter : Len(g) = n - 1}, x \in S}

Feeds == SeqsUpTo(Catalogue, MaxItems)

\* the instants at which the scheduler fires
Times ==
    { MkDate(19797, 12 * 3600000),             \* 2024-03-15T12:00:00.000Z
      MkDate(19798, 6 * 3600000),              \* 2024-03-16T06:00:00.000Z
      MkDate(19799, 19800000 - 1),             \* 2024-03-17T05:29:59.999Z
      MkDate(19799, 19800000),                 \* 2024-03-17T05:30:00.000Z
      MkDate(19799, 54000000 + 1) }            \* 2024-03-17T15:00:00.001Z

\* items[i - 1]
At(seq, i) == IF i \in 1..Len(seq) THEN seq[i] ELSE NoSuchItem

-----------------------------------------------------------------------------
(* Selection *)

\* variant A, line 82: new Date(Date.now() - hours * 60 * 60 * 1000)
getCutoffDate(hours) == AddMs(clock, 0 - hours * 60 * 60 * 1000)

\* mutant of yesterdayB: a window of 25 hours
yesterdayB_25h == AddMs(clock, 0 - 25 * 60 * 60 * 1000)

\* variant B, line 241: new Date(new Date().getTime() - 24 * 60 * 60 * 1000)
yesterdayB == AddMs(clock, 0 - 24 * 60 * 60 * 1000)

\* variant A, lines 84-95: the Date, or null (ok = FALSE) with the line logged
requirePubDate(item, label) ==
    IF PubDateMissing(item)
    THEN [ok |-> FALSE, date |-> InvalidDate, log |-> {<<"No pubDate found", label>>}]
    ELSE LET d == DateParse(item.pubDate)
         IN  IF IsNaN(d)
             THEN [ok |-> FALSE, date |-> InvalidDate,
                   log |-> {<<"Invalid pubDate found", label>>}]
             ELSE [ok |-> TRUE, date |-> d, log |-> {}]

\* mutant of NotNewA: < in place of <=
NotNewA_Strict(latestPubDate, cut) == DateGt(cut, latestPubDate)

\* variant A, line 128: latestPubDate <= cutoff
NotNewA(latestPubDate, cut) == DateLe(latestPubDate, cut)

\* mutant of OnlyOneA: the bound off by one
OnlyOneA_OffByOne(its) == Len(its) < 1

\* variant A, line 133: items.length < 2
OnlyOneA(its) == Len(its) < 2

\* mutant of secondLatestItem: the latest item is taken
secondLatestItem_Latest(its) == At(its, 1)

\* variant A, line 138: items[1]
secondLatestItem(its) == At(its, 2)

\* variant B, lines 244-250: the item is passed over (continue)
SkippedB(item) == PubDateMissing(item) \/ IsNaN(DateParse(item.pubDate))

\* mutant of FreshB: >= in place of >
FreshB_Inclusive(item, yesterday) == ~DateGt(yesterday, DateParse(item.pubDate))

\* mutant of FreshB: the window is not applied
FreshB_NoWindow(item, yesterday) == TRUE

\* variant B, line 252: pubDate > yesterday
FreshB(item, yesterday) == DateGt(DateParse(item.pubDate), yesterday)

Subject == <<"<haishin yotei>", ":", " ", "<U+300E>", "<miichan to yamada-san>", "<U+300F>">>

\* the PublishCommand input of sendMessage; item is the index of the feed item
\* the message was composed from (kept for the properties, not sent)
Call(message, i) == [Subject |-> Subject, Message |-> message, item |-> i]

-----------------------------------------------------------------------------
(* The invocation.  A step is the synchronous code between two awaits; the  *)
(* wall clock is read once per invocation and moves between invocations.    *)

\* process.env as the handler sees it
Envs == [TOPIC_ARN : BOOLEAN, KEY : BOOLEAN]

\* lines 13-22 (A) and 162-172 (B): TRUE when the configuration is complete
getConfigFromEnv(env) ==
    IF variant = "A" THEN env.TOPIC_ARN ELSE env.KEY /\ env.TOPIC_ARN

Log(tag) == logs' = logs \cup {tag}

Finish(tags) ==
    /\ pc' = "done"
    /\ logs' = logs \cup tags
    /\ UNCHANGED <<variant, remote, clock, items, idx, pending, calls, acked, err,
                   notifiedBefore, agedBefore>>

\* sendMessage up to its await (lines 26-35 / 176-185): the call is on the wire
Send(call) ==
    /\ pc' = "publishing"
    /\ pending' = <<call>>
    /\ calls' = Append(calls, call)
    /\ UNCHANGED <<variant, remote, clock, items, acked, err, logs,
                   notifiedBefore, agedBefore>>

\* the scheduled event arrives: lines 112-117 (A), 235-238 (B)
Start ==
    /\ pc = "idle"
    /\ \E env \in Envs :
          IF getConfigFromEnv(env)
          THEN /\ pc' = "fetching"
               /\ err' = "none"
          ELSE /\ pc' = "failed"
               /\ err' = "config"
    /\ logs' = IF variant = "A" THEN {<<"Scheduled event received">>} ELSE {}
    /\ UNCHANGED <<variant, remote, clock, items, cutoff, idx, pending, calls, acked,
                   notifiedBefore, agedBefore>>

\* parser.parseURL resolves: lines 104-105 (A), 238-241 (B)
FetchReturns ==
    /\ pc = "fetching"
    /\ items' = remote
    /\ IF variant = "A"
       THEN pc' = "selecting" /\ UNCHANGED cutoff
       ELSE pc' = "loop" /\ cutoff' = yesterdayB
    /\ idx' = 1
    /\ UNCHANGED <<variant, remote, clock, pending, calls, acked, err, logs,
                   notifiedBefore, agedBefore>>

\* parser.parseURL rejects: nothing catches it
FetchFails ==
    /\ pc = "fetching"
    /\ pc' = "failed"
    /\ err' = "fetch"
    /\ UNCHANGED <<variant, remote, clock, items, cutoff, idx, pending, calls, acked,
                   logs, notifiedBefore, agedBefore>>

\* variant A, lines 118-121
A_NoItems ==
    /\ pc = "selecting"
    /\ Len(items) = 0
    /\ UNCHANGED cutoff
    /\ Finish({<<"No items found in the RSS feed">>})

\* variant A, lines 123-125
A_LatestUnusable ==
    /\ pc = "selecting"
    /\ Len(items) # 0
    /\ LET latest == requirePubDate(At(items, 1), "latest")
       IN  /\ ~latest.ok
           /\ UNCHANGED cutoff
           /\ Finish(latest.log)

\* variant A, lines 127-131
A_NotNew ==
    /\ pc = "selecting"
    /\ Len(items) # 0
    /\ LET latest == requirePubDate(At(items, 1), "latest")
       IN  /\ latest.ok
           /\ cutoff' = getCutoffDate(24)
           /\ NotNewA(latest.date, cutoff')
           /\ Finish({<<"No new items published since cutoff">>})

\* variant A, lines 133-136
A_OnlyOne ==
    /\ pc = "selecting"
    /\ Len(items) # 0
    /\ LET latest == requirePubDate(At(items, 1), "latest")
       IN  /\ latest.ok
           /\ cutoff' = getCutoffDate(24)
           /\ ~NotNewA(latest.date, cutoff')
           /\ OnlyOneA(items)
           /\ Finish({<<"Only one item exists">>})

\* variant A, lines 138-140; reading .pubDate of an item that does not exist
\* throws a TypeError
A_SecondUnusable ==
    /\ pc = "selecting"
    /\ Len(items) # 0
    /\ LET latest == requirePubDate(At(items, 1), "latest")
           second == secondLatestItem(items)
       IN  /\ latest.ok
           /\ cutoff' = getCutoffDate(24)
           /\ ~NotNewA(latest.date, cutoff')
           /\ ~OnlyOneA(items)
           /\ IF second.missing
              THEN /\ pc' = "failed"
                   /\ err' = "TypeError"
                   /\ UNCHANGED <<variant, remote, clock, items, idx, pending, calls,
                                  acked, logs, notifiedBefore, agedBefore>>
              ELSE /\ ~requirePubDate(second, "second latest").ok
                   /\ Finish(requirePubDate(second, "second latest").log)

\* variant A, lines 142-145
A_Publish ==
    /\ pc = "selecting"
    /\ Len(items) # 0
    /\ LET latest == requirePubDate(At(items, 1), "latest")
           second == secondLatestItem(items)
       IN  /\ latest.ok
           /\ cutoff' = getCutoffDate(24)
           /\ ~NotNewA(latest.date, cutoff')
           /\ ~OnlyOneA(items)
           /\ ~second.missing
           /\ requirePubDate(second, "second latest").ok
           /\ LET shown == getItemDisplay(second)
                  msg   == buildMessageA(shown.title,
                                         requirePubDate(second, "second latest").date,
                                         shown.url)
              IN  Send(Call(msg, 2))
           /\ UNCHANGED idx

\* mutant of B_Skip: break in place of continue
B_Skip_Breaks ==
    /\ pc = "loop"
    /\ idx <= Len(items)
    /\ SkippedB(items[idx])
    /\ pc' = "done"
    /\ UNCHANGED <<variant, remote, clock, items, cutoff, idx, pending, calls, acked,
                   err, logs, notifiedBefore, agedBefore>>

\* variant B, lines 243-250: continue
B_Skip ==
    /\ pc = "loop"
    /\ idx <= Len(items)
    /\ SkippedB(items[idx])
    /\ idx' = idx + 1
    /\ UNCHANGED <<variant, remote, clock, pc, items, cutoff, pending, calls, acked,
                   err, logs, notifiedBefore, agedBefore>>

\* variant B, line 252, condition false
B_Stale ==
    /\ pc = "loop"
    /\ idx <= Len(items)
    /\ ~SkippedB(items[idx])
    /\ ~FreshB(items[idx], cutoff)
    /\ idx' = idx + 1
    /\ UNCHANGED <<variant, remote, clock, pc, items, cutoff, pending, calls, acked,
                   err, logs, notifiedBefore, agedBefore>>

\* variant B, lines 252-254
B_Publish ==
    /\ pc = "loop"
    /\ idx <= Len(items)
    /\ ~SkippedB(items[idx])
    /\ FreshB(items[idx], cutoff)
    /\ Send(Call(buildMessageB(titleOrPlaceholderB(items[idx]),
                               DateParse(items[idx].pubDate)), idx))
    /\ UNCHANGED <<cutoff, idx>>

\* variant B, line 256: the loop is over
B_End ==
    /\ pc = "loop"
    /\ idx > Len(items)
    /\ UNCHANGED cutoff
    /\ Finish({})

\* client.send resolves: lines 35-37 / 185-187, then the handler goes on
PublishSucceeds ==
    /\ pc = "publishing"
    /\ pending' = <<>>
    /\ acked' = acked + 1
    /\ Log(<<"SNS publish succeeded">>)
    /\ IF variant = "A"
       THEN pc' = "done" /\ UNCHANGED idx
       ELSE pc' = "loop" /\ idx' = idx + 1
    /\ UNCHANGED <<variant, remote, clock, items, cutoff, calls, err,
                   notifiedBefore, agedBefore>>

\* mutant of PublishFails: the error is logged and swallowed, the handler goes on
PublishFails_Swallowed ==
    /\ pc = "publishing"
    /\ pending' = <<>>
    /\ Log(<<"SNS publish failed">>)
    /\ IF variant = "A"
       THEN pc' = "done" /\ UNCHANGED idx
       ELSE pc' = "loop" /\ idx' = idx + 1
    /\ UNCHANGED <<variant, remote, clock, items, cutoff, calls, acked, err,
                   notifiedBefore, agedBefore>>

\* client.send rejects: lines 38-41 / 188-191, and nothing in the handler catches
PublishFails ==
    /\ pc = "publishing"
    /\ pending' = <<>>
    /\ Log(<<"SNS publish failed">>)
    /\ pc' = "failed"
    /\ err' = "publish"
    /\ UNCHANGED <<variant, remote, clock, items, cutoff, idx, calls, acked,
                   notifiedBefore, agedBefore>>

\* the items of the feed the ended invocation published
Published == {items[calls[k].item] : k \in 1..Len(calls)}

\* the items the ended invocation saw at or past the end of the window
AgedOut ==
    IF cutoff.valid
    THEN {it \in {items[k] : k \in 1..Len(items)} :
             ~SkippedB(it) /\ DateLe(DateParse(it.pubDate), cutoff)}
    ELSE {}

\* the invocation is over and the scheduler fires again, no earlier than the
\* last time; nothing of the old invocation is kept
ScheduleNext ==
    /\ pc \in {"done", "failed"}
    /\ pc' = "idle"
    /\ clock' \in {t \in Times : ~DateGt(clock, t)}
    /\ items' = <<>>
    /\ cutoff' = InvalidDate
    /\ idx' = 1
    /\ pending' = <<>>
    /\ calls' = <<>>
    /\ acked' = 0
    /\ err' = "none"
    /\ logs' = {}
    /\ notifiedBefore' = notifiedBefore \cup Published
    /\ agedBefore' = agedBefore \cup AgedOut
    /\ UNCHANGED <<variant, remote>>

Init ==
    /\ variant \in {"A", "B"}
    /\ remote \in Feeds
    /\ clock \in Times
    /\ pc = "idle"
    /\ items = <<>>
    /\ cutoff = InvalidDate
    /\ idx = 1
    /\ pending = <<>>
    /\ calls = <<>>
    /\ acked = 0
    /\ err = "none"
    /\ logs = {}
    /\ notifiedBefore = {}
    /\ agedBefore = {}
    /\ fmtIn = InvalidDate
    /\ fmtOutA = <<>>
    /\ fmtOutB = <<>>

Next ==
    \/ (Start /\ UNCHANGED fmtVars)
    \/ (FetchReturns /\ UNCHANGED fmtVars)
    \/ (FetchFails /\ UNCHANGED fmtVars)
    \/ (A_NoItems /\ UNCHANGED fmtVars)
    \/ (A_LatestUnusable /\ UNCHANGED fmtVars)
    \/ (A_NotNew /\ UNCHANGED fmtVars)
    \/ (A_OnlyOne /\ UNCHANGED fmtVars)
    \/ (A_SecondUnusable /\ UNCHANGED fmtVars)
    \/ (A_Publish /\ UNCHANGED fmtVars)
    \/ (B_Skip /\ UNCHANGED fmtVars)
    \/ (B_Stale /\ UNCHANGED fmtVars)
    \/ (B_Publish /\ UNCHANGED fmtVars)
    \/ (B_End /\ UNCHANGED fmtVars)
    \/ (PublishSucceeds /\ UNCHANGED fmtVars)
    \/ (PublishFails /\ UNCHANGED fmtVars)
    \/ (ScheduleNext /\ UNCHANGED fmtVars)

Spec == Init /\ [][Next]_vars

-----------------------------------------------------------------------------
(* formatJstDateTime as a pure function: the Date is drawn from FormatInputs *)
(* and each variant's function is applied to it.                             *)

\* 1970-01-01, 1970-02-28, 1970-03-01, 1972-02-29, 1999-12-31, 2000-02-29,
\* 2023-12-31, 2024-02-29, 2024-03-15, 2100-02-28
FormatDays == {0, 58, 59, 789, 10956, 11016, 19722, 19782, 19797, 47540}

\* 00:00:00.000, 01:07:00.000, 05:30:00.000, 14:59:59.999, 15:00:00.000,
\* 15:05:30.000, 23:59:59.999 (UTC)
FormatMs == {0, 4020000, 19800000, 53999999, 54000000, 54330000, 86399999}

FormatInputs == {MkDate(d, ms) : d \in FormatDays, ms \in FormatMs}

InitFormat ==
    /\ variant = "A"
    /\ remote = <<>>
    /\ clock = MkDate(0, 0)
    /\ pc = "idle"
    /\ items = <<>>
    /\ cutoff = InvalidDate
    /\ idx = 1
    /\ pending = <<>>
    /\ calls = <<>>
    /\ acked = 0
    /\ err = "none"
    /\ logs = {}
    /\ notifiedBefore = {}
    /\ agedBefore = {}
    /\ fmtIn \in FormatInputs
    /\ fmtOutA = <<>>
    /\ fmtOutB = <<>>

FormatA ==
    /\ fmtOutA = <<>>
    /\ fmtOutA' = formatJstDateTimeA(fmtIn)
    /\ UNCHANGED <<fmtIn, fmtOutB>>
    /\ UNCHANGED handlerVars

FormatB ==
    /\ fmtOutB = <<>>
    /\ fmtOutB' = formatJstDateTimeB(fmtIn)
    /\ UNCHANGED <<fmtIn, fmtOutA>>
    /\ UNCHANGED handlerVars

NextFormat == FormatA \/ FormatB

SpecFormat == InitFormat /\ [][NextFormat]_vars

-----------------------------------------------------------------------------
(* Vocabulary of the properties, stated on the feed and the clock and not   *)
(* through the handler's own helpers.                                       *)

WindowMs == 24 * 60 * 60 * 1000

\* the item carries a timestamp that parses
Parseable(item) == item.pubDate.kind = "rfc822"

\* the instant of a parseable item
Instant(item) == MkDate(item.pubDate.day, item.pubDate.sec * 1000)

\* the item's timestamp is strictly after now - 24 h, i.e. now is less than
\* 24 h after it
WithinWindow(item) == Parseable(item) /\ DateGt(AddMs(Instant(item), WindowMs), clock)

\* the invocation has received the feed
Fetched ==
    \/ pc \in {"selecting", "loop", "publishing", "done"}
    \/ pc = "failed" /\ err \notin {"config", "fetch"}

\* the selection of variant A has run
SelectedA == variant = "A" /\ Fetched /\ pc # "selecting"

\* the invocation is over
Ended == pc \in {"done", "failed"}

\* a publish call was issued for the item at index i
PublishedAt(i) == \E k \in 1..Len(calls) : calls[k].item = i

\* what a title or link is shown as
Shown(o, placeholder) == IF ~o.has \/ o.v = <<>> THEN placeholder ELSE o.v

IsPrefix(p, t) == Len(p) <= Len(t) /\ SubSeq(t, 1, Len(p)) = p

-----------------------------------------------------------------------------
(* C1 *)

\* C1: variant A, feed of at least two items, items[0] parseable and strictly after
\* the cutoff, items[1] parseable: exactly one publish call is issued, its message
\* is composed from items[1]'s title, link and timestamp, whatever the age of
\* items[1], and when the invocation ends normally that one call has succeeded.
C1_SecondLatestSelected ==
    (/\ SelectedA
     /\ Len(items) >= 2
     /\ WithinWindow(items[1])
     /\ Parseable(items[2]))
    => /\ Len(calls) = 1
       /\ pc \in {"publishing", "done", "failed"}
       /\ LET m == calls[1].Message
          IN  /\ Len(m) = 6
              /\ m[4] = TitleLabel \o Shown(items[2].title, NoTitle)
              /\ m[5] = DateLabel \o formatJstDateTimeA(Instant(items[2]))
              /\ m[6] = UrlLabel \o Shown(items[2].link, NoUrl)
       /\ (pc = "done" => acked = 1)
       /\ (pc = "failed" => err = "publish")

\* C1 witness: items[0] is fresh, items[1] is older than the cutoff, and the one
\* message published names Ep1, the title of items[1]
C1_Witness ==
    /\ variant = "A"
    /\ pc = "done"
    /\ Len(items) >= 2
    /\ items[1] = ItemNew
    /\ items[2] = ItemOld
    /\ ~WithinWindow(items[2])
    /\ Len(calls) = 1
    /\ calls[1].Message[4] = TitleLabel \o <<"E", "p", "1">>
    /\ acked = 1

-----------------------------------------------------------------------------
(* C2 *)

\* C2: variant A, items[0] parseable with a timestamp at or before the cutoff: the
\* invocation ends normally and publishes nothing, whatever the other items are.
C2_LatestNotNew ==
    (/\ SelectedA
     /\ Len(items) >= 1
     /\ Parseable(items[1])
     /\ ~WithinWindow(items[1]))
    => /\ pc = "done"
       /\ err = "none"
       /\ calls = <<>>
       /\ acked = 0

\* C2 witness: items[0] is exactly 24 h old and a second, parseable item exists
C2_Witness ==
    /\ variant = "A"
    /\ pc = "done"
    /\ Len(items) >= 2
    /\ Parseable(items[1])
    /\ AddMs(Instant(items[1]), WindowMs) = clock
    /\ Parseable(items[2])
    /\ calls = <<>>

-----------------------------------------------------------------------------
(* C3 *)

\* C3: variant A, feed of fewer than two items: the invocation ends normally and
\* publishes nothing.
C3_FewerThanTwo ==
    (SelectedA /\ Len(items) < 2)
    => /\ pc = "done"
       /\ err = "none"
       /\ calls = <<>>
       /\ acked = 0

\* C3 witness: a single item, strictly after the cutoff
C3_Witness ==
    /\ variant = "A"
    /\ pc = "done"
    /\ Len(items) = 1
    /\ WithinWindow(items[1])
    /\ calls = <<>>
    /\ <<"Only one item exists">> \in logs

-----------------------------------------------------------------------------
(* C4 *)

\* the indices of the items strictly after the cutoff
FreshIdx == {i \in 1..Len(items) : WithinWindow(items[i])}

\* C4: variant B.  The publish calls are issued in feed order, each for an item
\* strictly after the cutoff and composed from it; when the invocation ends
\* normally (every publish succeeded) there is exactly one call per such item and
\* none for any other item.
C4_OnePerFreshItem ==
    (variant = "B" /\ Fetched)
    => /\ \A k \in 1..Len(calls) :
             /\ calls[k].item \in FreshIdx
             /\ \A j \in 1..(k - 1) : calls[j].item < calls[k].item
             /\ LET it == items[calls[k].item]
                    m  == calls[k].Message
                IN  /\ m[4] = TitleLabel \o Shown(it.title, NoTitle)
                    /\ m[5] = DateLabel \o formatJstDateTimeB(Instant(it))
       /\ (pc = "done" =>
             /\ {calls[k].item : k \in 1..Len(calls)} = FreshIdx
             /\ Len(calls) = Cardinality(FreshIdx)
             /\ acked = Len(calls))

\* C4 witness: a normal end with two messages, in feed order, and an item exactly
\* 24 h old that got none
C4_Witness ==
    /\ variant = "B"
    /\ pc = "done"
    /\ Len(calls) = 2
    /\ acked = 2
    /\ calls[1].item < calls[2].item
    /\ \E i \in 1..Len(items) :
          /\ Parseable(items[i])
          /\ AddMs(Instant(items[i]), WindowMs) = clock
          /\ ~PublishedAt(i)

-----------------------------------------------------------------------------
(* C5 *)

\* C5 as stated: every invocation, of either variant, issues at most one publish
\* call.
C5_AtMostOne == Len(calls) <= 1

\* C5 as amended: an invocation of variant A issues at most one publish call; an
\* invocation of variant B issues at most one per feed item strictly after the
\* cutoff, which can be more than one.
C5_AtMostOnePerFreshItem ==
    /\ (variant = "A" => Len(calls) <= 1)
    /\ (variant = "B" => Len(calls) <= Cardinality(FreshIdx))

\* C5 witness: variant B ends normally having published once for each of the two
\* or more items of the feed
C5_Witness ==
    /\ variant = "B"
    /\ pc = "done"
    /\ Len(calls) >= 2
    /\ Len(calls) = Len(items)
    /\ acked = Len(calls)

-----------------------------------------------------------------------------
(* C6 *)

\* C6: a failed publish is logged and re-raised, the invocation ends in failure
\* with no further publish call (the failed call stays the last one and the only
\* one without a success); at most one call is awaited at a time, and a call is
\* issued only when every earlier one has succeeded.
C6_PublishFailureAborts ==
    /\ Len(pending) <= 1
    /\ (pending # <<>> <=> pc = "publishing")
    /\ (pending # <<>> =>
          /\ calls # <<>>
          /\ pending[1] = calls[Len(calls)]
          /\ acked = Len(calls) - 1)
    /\ (<<"SNS publish failed">> \in logs <=> err = "publish")
    /\ (err = "publish" =>
          /\ pc = "failed"
          /\ pending = <<>>
          /\ acked = Len(calls) - 1)
    /\ (pending = <<>> /\ err # "publish" => acked = Len(calls))

\* C6 witness: variant B, the second publish failed and an item strictly after the
\* cutoff that follows it in the feed was not published
C6_Witness ==
    /\ variant = "B"
    /\ pc = "failed"
    /\ err = "publish"
    /\ Len(calls) = 2
    /\ acked = 1
    /\ \E j \in FreshIdx : j > calls[2].item /\ ~PublishedAt(j)

-----------------------------------------------------------------------------
(* C7 *)

\* variant B: the loop has come to the item at index j
Examined(j) == idx > j \/ PublishedAt(j)

\* variant A with an unusable timestamp on items[0] or items[1]: a normal end,
\* nothing published
C7_VariantA ==
    (/\ SelectedA
     /\ Len(items) >= 1
     /\ (~Parseable(items[1]) \/ (Len(items) >= 2 /\ ~Parseable(items[2]))))
    => /\ pc = "done"
       /\ err = "none"
       /\ calls = <<>>

\* C7 as stated: an item without a usable timestamp is never fatal; in variant B
\* the loop, once it has come to such an item (idx >= i), passes over it and every
\* item after it is still examined, and published if it is strictly after the
\* cutoff; in variant A the invocation ends normally with nothing published.
C7_BadTimestampNeverStops ==
    /\ (pc = "failed" => err \in {"config", "fetch", "publish"})
    /\ C7_VariantA
    /\ (variant = "B" /\ Fetched /\ Ended) =>
          \A i \in 1..Len(items) :
             (~Parseable(items[i]) /\ idx >= i) =>
                /\ idx > i
                /\ ~PublishedAt(i)
                /\ \A j \in (i + 1)..Len(items) :
                      /\ Examined(j)
                      /\ (WithinWindow(items[j]) => PublishedAt(j))

\* C7 as amended: as stated, except that in variant B an item after the skipped
\* one is left unexamined when a publish call issued before the loop came to it
\* has failed.
C7_BadTimestampSkipped ==
    /\ (pc = "failed" => err \in {"config", "fetch", "publish"})
    /\ C7_VariantA
    /\ (variant = "B" /\ Fetched /\ Ended) =>
          \A i \in 1..Len(items) :
             (~Parseable(items[i]) /\ idx >= i) =>
                /\ idx > i
                /\ ~PublishedAt(i)
                /\ \A j \in (i + 1)..Len(items) :
                      \/ /\ Examined(j)
                         /\ (WithinWindow(items[j]) => PublishedAt(j))
                      \/ /\ err = "publish"
                         /\ calls[Len(calls)].item \in (i + 1)..(j - 1)

\* C7 witness: variant B ends normally; the feed opens with an item without a
\* usable timestamp and a later item was published
C7_Witness ==
    /\ variant = "B"
    /\ pc = "done"
    /\ Len(items) >= 2
    /\ ~Parseable(items[1])
    /\ \E j \in 2..Len(items) : WithinWindow(items[j]) /\ PublishedAt(j)

-----------------------------------------------------------------------------
(* C9 *)

\* C9 as stated: variant B, whatever earlier invocations did: an item of the feed
\* is published in every invocation less than 24 h after its timestamp and in
\* none at or after 24 h.
C9_RenotifiedEveryRun ==
    (variant = "B" /\ Fetched /\ Ended) =>
       \A i \in 1..Len(items) :
          Parseable(items[i]) => (WithinWindow(items[i]) <=> PublishedAt(i))

\* C9 as amended: variant B, whatever earlier invocations did: an item of the feed
\* is published in every invocation that receives the feed less than 24 h after the
\* item's timestamp and in which no publish call for an earlier item fails, and in
\* none at or after 24 h; an item that an earlier invocation found aged out is
\* never published again.
C9_RenotifiedUntilAgedOut ==
    (variant = "B" /\ Fetched) =>
       /\ \A k \in 1..Len(calls) :
             /\ WithinWindow(items[calls[k].item])
             /\ items[calls[k].item] \notin agedBefore
       /\ Ended =>
             \A i \in 1..Len(items) :
                WithinWindow(items[i]) =>
                   \/ PublishedAt(i)
                   \/ /\ err = "publish"
                      /\ calls[Len(calls)].item < i

\* C9 witness: an invocation of variant B publishes an item that an earlier
\* invocation published already, and passes over one that had aged out
C9_Witness ==
    /\ variant = "B"
    /\ pc = "done"
    /\ \E i \in 1..Len(items) : items[i] \in notifiedBefore /\ PublishedAt(i)
    /\ \E j \in 1..Len(items) : items[j] \in agedBefore /\ ~PublishedAt(j)
    /\ \E j \in 1..Len(items) :
          items[j] \in notifiedBefore /\ ~WithinWindow(items[j]) /\ ~PublishedAt(j)

-----------------------------------------------------------------------------
(* C10 *)

\* C10: every message carries the title line, with the placeholder for an absent
\* or empty title; a message of variant A ends with the URL line, with the
\* placeholder for an absent or empty link; a message of variant B has no URL line.
C10_TitleAndUrlLines ==
    \A k \in 1..Len(calls) :
       LET it == items[calls[k].item]
           m  == calls[k].Message
       IN  /\ m[1] = Announcement
           /\ m[2] = <<>>
           /\ m[3] = DetailsHeader
           /\ m[4] = TitleLabel \o Shown(it.title, NoTitle)
           /\ Len(m[4]) > Len(TitleLabel)
           /\ IsPrefix(DateLabel, m[5])
           /\ (variant = "A" =>
                 /\ Len(m) = 6
                 /\ m[6] = UrlLabel \o Shown(it.link, NoUrl)
                 /\ Len(m[6]) > Len(UrlLabel))
           /\ (variant = "B" =>
                 /\ Len(m) = 5
                 /\ \A l \in 1..Len(m) : ~IsPrefix(UrlLabel, m[l]))

\* C10 witness: variant A published for an item with no title and an empty link
C10_Witness ==
    /\ variant = "A"
    /\ Len(calls) = 1
    /\ ~items[calls[1].item].title.has
    /\ items[calls[1].item].link = Some(<<>>)
    /\ calls[1].Message[4] = TitleLabel \o NoTitle
    /\ calls[1].Message[6] = UrlLabel \o NoUrl

-----------------------------------------------------------------------------
(* C8 *)

IsDigit(c) == \E n \in 1..10 : DigitChars[n] = c

DigitVal(c) == (CHOOSE n \in 1..10 : DigitChars[n] = c) - 1

\* the number two digits of a text at positions i, i + 1 write
TwoAt(t, i) == 10 * DigitVal(t[i]) + DigitVal(t[i + 1])

\* t has the layout YYYY/MM/DD HH:MM (JST) and nothing else
WellShaped(t) ==
    /\ Len(t) = 22
    /\ \A i \in {1, 2, 3, 4, 6, 7, 9, 10, 12, 13, 15, 16} : IsDigit(t[i])
    /\ t[5] = "/"
    /\ t[8] = "/"
    /\ t[11] = " "
    /\ t[14] = ":"
    /\ SubSeq(t, 17, 22) = JstSuffix

\* the day number (days since 1970-01-01) of a Gregorian date
DaysFromCivil(y0, m, d) ==
    LET y   == IF m <= 2 THEN y0 - 1 ELSE y0
        era == y \div 400
        yoe == y - era * 400
        doy == (153 * (IF m > 2 THEN m - 3 ELSE m + 9) + 2) \div 5 + d - 1
        doe == yoe * 365 + yoe \div 4 - yoe \div 100 + doy
    IN  era * 146097 + doe - 719468

\* t is well shaped and, read back as a civil time at UTC+9, is the minute the
\* instant falls in; from 15:00Z on the date written is the day after the UTC day
Renders(t, date) ==
    /\ WellShaped(t)
    /\ LET year   == 100 * TwoAt(t, 1) + TwoAt(t, 3)
           month  == TwoAt(t, 6)
           day    == TwoAt(t, 9)
           hour   == TwoAt(t, 12)
           minute == TwoAt(t, 15)
           utcMin == date.ms \div 60000
       IN  /\ month \in 1..12
           /\ day \in 1..31
           /\ hour \in 0..23
           /\ minute \in 0..59
           /\ (DaysFromCivil(year, month, day) * 24 + hour) * 60 + minute
                 = (date.day * 24 + 9) * 60 + utcMin
           /\ (utcMin >= 15 * 60 => DaysFromCivil(year, month, day) = date.day + 1)
           /\ (utcMin < 15 * 60 => DaysFromCivil(year, month, day) = date.day)

\* 2024/03/15 14:30 (JST)
ExampleText ==
    <<"2", "0", "2", "4", "/", "0", "3", "/", "1", "5", " ", "1", "4", ":", "3", "0">>
    \o JstSuffix

\* 2024-03-15T05:30:00Z
ExampleDate == MkDate(19797, 19800000)

\* C8: formatJstDateTime of either variant renders the instant at UTC+9 as exactly
\* YYYY/MM/DD HH:MM (JST), zero-padded, 24-hour clock, no other characters;
\* 2024-03-15T05:30:00Z renders as 2024/03/15 14:30 (JST); from 15:00Z on the date
\* is that of the next day.
C8_FormatExact ==
    /\ (fmtOutA # <<>> =>
          /\ Renders(fmtOutA, fmtIn)
          /\ (fmtIn = ExampleDate => fmtOutA = ExampleText))
    /\ (fmtOutB # <<>> =>
          /\ Renders(fmtOutB, fmtIn)
          /\ (fmtIn = ExampleDate => fmtOutB = ExampleText))

\* C8 restricted to variant A, which meets it
C8_VariantA_Exact ==
    fmtOutA # <<>> =>
       /\ Renders(fmtOutA, fmtIn)
       /\ (fmtIn = ExampleDate => fmtOutA = ExampleText)

\* variant A has rendered an instant past 15:00Z on the last day of a year
C8_VariantA_Witness ==
    /\ fmtOutA # <<>>
    /\ fmtIn = MkDate(19722, 54330000)
    /\ SubSeq(fmtOutA, 1, 16) =
          <<"2", "0", "2", "4", "/", "0", "1", "/", "0", "1", " ", "0", "0", ":", "0", "5">>

=============================================================================
